---- MODULE Spec2Model ----
(***************************************************************************)
(* Model of src/src/isahc.rs: IsahcClient, the adapter that implements     *)
(* HttpClient::send on top of an isahc::HttpClient engine handle held in   *)
(* an Arc.                                                                 *)
(*                                                                         *)
(* Header names, header values and body contents are tuples of byte        *)
(* codes.  The neutral types (http_types Request / Response / Body /       *)
(* Headers) and the engine types (http::request::Builder, http::HeaderMap, *)
(* isahc::Body) are modelled by what the calls made in isahc.rs do.        *)
(***************************************************************************)
EXTENDS Integers, Sequences, FiniteSets, TLC

VARIABLES
    adapter,    \* adapter slot -> Option<handle>: IsahcClient.client
    origin,     \* adapter slot -> Option<handle>: the handle its family was constructed with (history)
    rc,         \* handle -> Arc strong count (0: not allocated)
    engine,     \* handle -> configuration of the isahc::HttpClient behind it
    call,       \* call slot -> the local state of one send future
    aborted     \* the process died in new() (unwrap of a failed engine construction)

vars == <<adapter, origin, rc, engine, call, aborted>>

----------------------------------------------------------------------------
(* Bounds of the model *)

MaxBodyLen == 2      \* longest body content
MaxValues == 2       \* most values one header name carries
MaxCalls == 2        \* concurrent send futures (SpecShare)
MaxAdapters == 2     \* live IsahcClient values (SpecShare)
MaxHandles == 2      \* engine handles alive at once (SpecShare)

----------------------------------------------------------------------------
(* Option<T> *)

None == [some |-> FALSE]
Some(v) == [some |-> TRUE, val |-> v]

Min(a, b) == IF a <= b THEN a ELSE b
Take(s, n) == SubSeq(s, 1, Min(n, Len(s)))
SeqsUpTo(S, n) == UNION {[1..k -> S] : k \in 0..n}

----------------------------------------------------------------------------
(* Input domains *)

Bytes == {104, 105}                         \* "h", "i"
Contents == SeqsUpTo(Bytes, MaxBodyLen)
Hello == <<104>>

NameTest == <<116>>                         \* "t"
NameX == <<120>>                            \* "x"
HeaderNames == {NameTest, NameX}

\* http_types::HeaderValue holds any ASCII string, control characters included.
ReqValues == {<<118>>, <<119>>, <<10>>}     \* "v", "w", "\n"
\* http::HeaderValue holds bytes 32..126, tab and 128..255.
RespValues == {<<118>>, <<119>>, <<233>>}   \* "v", "w", 0xE9

ValueLists(V) == UNION {[1..k -> V] : k \in 1..MaxValues}

DistinctNames(h) == \A i, j \in 1..Len(h) : i # j => h[i].name # h[j].name

\* A header collection in its enumeration order: one item per name, each
\* with its values in order.
HeaderMaps(V) ==
    UNION {{h \in [1..k -> [name : HeaderNames, values : ValueLists(V)]] : DistinctNames(h)}
           : k \in 0..Cardinality(HeaderNames)}

Methods == {"GET", "POST"}
UrlEcho == "http://echo/"
UrlDown == "http://down/"
UrlOther == "http://other/"

\* http_types::Body: a reader and an optional length; a known length is the
\* number of bytes the reader yields.
MkBody(content, len) == [content |-> content, len |-> len]
Bodies == UNION {{MkBody(s, None), MkBody(s, Some(Len(s)))} : s \in Contents}
HelloBody == MkBody(Hello, Some(Len(Hello)))
TestHeaders == <<[name |-> NameTest, values |-> <<(<<118>>)>>]>>

MkRequest(m, u, h, b) == [method |-> m, url |-> u, headers |-> h, body |-> b]

\* tests::build_test_request
BuildTestRequest(url) == MkRequest("POST", url, TestHeaders, HelloBody)

HeaderRequests ==
    {MkRequest("POST", UrlEcho, h, HelloBody) : h \in HeaderMaps(ReqValues)}
BodyRequests ==
    {MkRequest(m, u, TestHeaders, b) : m \in Methods, u \in {UrlEcho, UrlDown}, b \in Bodies}
OtherRequests ==
    {BuildTestRequest(UrlOther), MkRequest("GET", UrlOther, <<>>, MkBody(<<>>, None))}
Requests == HeaderRequests \cup BodyRequests \cup OtherRequests
SmallRequests == {BuildTestRequest(UrlDown)}

EngineConfigs == {"default", "custom"}

----------------------------------------------------------------------------
(* Integer casts *)

\* `len as u64` (usize -> u64) and `len as usize` (u64 -> usize) keep the
\* value modulo 2^width.  usize and u64 are at least 32 bits wide and TLC's
\* integers stop below 2^31, so the casts are taken modulo 2^30, a width no
\* wider than any target's.
CastModulus == 2 ^ 30
AsU64(n) == n % CastModulus
AsUsize(n) == n % CastModulus

----------------------------------------------------------------------------
(* Request translation: send, lines 48-65 *)

\* http_types::Method::to_string: the verb's name.
MethodToString(m) == m

IsTokenByte(b) ==
    \/ b \in 48..57 \/ b \in 65..90 \/ b \in 97..122
    \/ b \in {33, 35, 36, 37, 38, 39, 42, 43, 45, 46, 94, 95, 96, 124, 126}

\* http::Method::from_bytes: every verb http_types::Method::to_string prints
\* is a token; anything else is rejected.
MethodFromBytes(s) ==
    IF s \in {"GET", "HEAD", "POST", "PUT", "DELETE", "CONNECT", "OPTIONS", "TRACE", "PATCH"}
    THEN [ok |-> TRUE, method |-> s]
    ELSE [ok |-> FALSE]

\* http::request::Builder::uri: the URL string is handed over unchanged.
BuilderNew(url, method) == [err |-> FALSE, method |-> method, uri |-> url, headers |-> <<>>]

\* The engine accepts a header name made of token bytes ...
HttpNameValid(name) == Len(name) > 0 /\ \A i \in 1..Len(name) : IsTokenByte(name[i])
\* ... and a header value free of control bytes other than tab.
HttpValueValid(v) == \A i \in 1..Len(v) : v[i] = 9 \/ (v[i] >= 32 /\ v[i] # 127)

\* http::request::Builder::header: appends one entry; a name or value the
\* engine rejects leaves the builder in its error state, which is sticky.
BuilderHeader(b, name, value) ==
    IF b.err THEN b
    ELSE IF ~HttpNameValid(name) \/ ~HttpValueValid(value) THEN [b EXCEPT !.err = TRUE]
    ELSE [b EXCEPT !.headers = Append(@, [name |-> name, value |-> value])]

\* req.header_names(): the names, in the Request's enumeration order.
HeaderNamesOf(headers) == [i \in 1..Len(headers) |-> headers[i].name]

\* req.header(name): the values stored under the name, if any.
Header(headers, name) ==
    IF \E i \in 1..Len(headers) : headers[i].name = name
    THEN Some((CHOOSE i \in 1..Len(headers) : headers[i].name = name))
    ELSE None

\* value.as_str() on the HeaderValues of one name: HeaderValues dereferences
\* to a single HeaderValue, its last one.
AsStr(values) == values[Len(values)]

\* The loop of lines 52-56: one builder.header call per header name.
RECURSIVE HeaderLoop(_, _, _, _)
HeaderLoop(b, headers, names, i) ==
    IF i > Len(names) THEN b
    ELSE LET found == Header(headers, names[i])
         IN HeaderLoop(IF found.some
                       THEN BuilderHeader(b, names[i], AsStr(headers[found.val].values))
                       ELSE b,
                       headers, names, i + 1)

TranslateHeaders(b, headers) == HeaderLoop(b, headers, HeaderNamesOf(headers), 1)

\* Body::empty(): no bytes, length Some(0).
EmptyBody == MkBody(<<>>, Some(0))

\* A take_body that hands out a fresh empty body and leaves the Request's
\* body where it is.
TakeBodyEmpty(req) == [body |-> EmptyBody, req |-> req]

\* req.take_body(): the body moves out and an empty one takes its place.
TakeBody(req) == [body |-> req.body, req |-> [req EXCEPT !.body = EmptyBody]]

\* A wrapping that never declares a size.
WrapBodyUnsized(body) == [reader |-> body, len |-> None]

\* isahc::Body::from_reader_sized / from_reader (lines 60-63).
WrapBody(body) ==
    IF body.len.some
    THEN [reader |-> body, len |-> Some(AsU64(body.len.val))]
    ELSE [reader |-> body, len |-> None]

\* http::request::Builder::body: the request, or the builder's error.
BuilderBody(b, body) ==
    IF b.err THEN [ok |-> FALSE]
    ELSE [ok |-> TRUE,
          request |-> [method |-> b.method, uri |-> b.uri, headers |-> b.headers, body |-> body]]

\* Lines 48-65 as a whole: the engine request, or a panic of one of the
\* two unwraps (line 50, line 65).
BuildRequest(req) ==
    LET m == MethodFromBytes(MethodToString(req.method))
        b0 == BuilderNew(req.url, IF m.ok THEN m.method ELSE "")
        b1 == TranslateHeaders(b0, req.headers)
        tb == TakeBody(req)
        built == BuilderBody(b1, WrapBody(tb.body))
    IN IF ~m.ok \/ ~built.ok
       THEN [panic |-> TRUE, req |-> tb.req]
       ELSE [panic |-> FALSE, req |-> tb.req, request |-> built.request]

----------------------------------------------------------------------------
(* The engine: client.send_async, line 66 *)

\* The bytes the engine puts on the wire: a sized body is read for the
\* declared number of bytes, an unsized one until the reader ends.
Transmitted(body) ==
    IF body.len.some THEN Take(body.reader.content, body.len.val) ELSE body.reader.content

MkEngineResponse(status, headers, content, len) ==
    [kind |-> "resp", status |-> status, headers |-> headers,
     body |-> [content |-> content, len |-> len]]

EngineFailure == [kind |-> "fail"]

\* The handler of tests::basic_functionality: status 200, the request body
\* back; the engine may or may not learn a length for it.
EchoResponses(request) ==
    LET t == Transmitted(request.body)
    IN {MkEngineResponse(200, <<>>, t, len) : len \in {None, Some(Len(t))}}

\* What another endpoint may answer: any status the engine lets through,
\* any header collection, any body.
OtherResponses ==
    {MkEngineResponse(st, <<>>, Hello, Some(Len(Hello))) : st \in {200, 404, 299}}
    \cup {MkEngineResponse(200, h, Hello, Some(Len(Hello))) : h \in HeaderMaps(RespValues)}
    \cup {MkEngineResponse(200, <<>>, b.content, b.len) : b \in Bodies}

\* Every exchange can fail in transport; an unreachable endpoint only fails.
EngineOutcomes(request) ==
    {EngineFailure}
    \cup (IF request.uri = UrlEcho THEN EchoResponses(request)
          ELSE IF request.uri = UrlOther THEN OtherResponses
          ELSE {})

----------------------------------------------------------------------------
(* Response translation: send, lines 67-75 *)

\* A translation that forgets the engine's length.
MapLenNone(len) == None

\* body.len().map(|len| len as usize), line 68.
MapLen(len) == IF len.some THEN Some(AsUsize(len.val)) ELSE None

\* Body::from_reader(BufReader::new(body), len), line 69.
BodyFromReader(content, len) == MkBody(content, len)

\* The status codes http_types::StatusCode names.
KnownStatus ==
    {100, 101, 103} \cup 200..208 \cup {226} \cup 300..305 \cup {307, 308}
    \cup 400..418 \cup 421..426 \cup {428, 429, 431, 451} \cup 500..508 \cup {510, 511}

\* http_types::Response::new(u16), line 70: the conversion into a
\* StatusCode is unwrapped inside new.
ResponseNew(status) ==
    IF status \in KnownStatus
    THEN [panic |-> FALSE, response |-> [status |-> status, headers |-> <<>>, body |-> EmptyBody]]
    ELSE [panic |-> TRUE]

\* Iterating &parts.headers: one (name, value) per value, the values of a
\* name together.
RECURSIVE Entries(_)
Entries(h) ==
    IF h = <<>> THEN <<>>
    ELSE [i \in 1..Len(h[1].values) |-> [name |-> h[1].name, value |-> h[1].values[i]]]
         \o Entries(Tail(h))

\* http::HeaderValue::to_str: visible ASCII and tab only.
ToStr(v) ==
    IF \A i \in 1..Len(v) : v[i] = 9 \/ (v[i] >= 32 /\ v[i] < 127) THEN Some(v) ELSE None

\* Response::insert_header: the name's values are replaced by the new one.
InsertHeader(headers, name, value) ==
    IF \E i \in 1..Len(headers) : headers[i].name = name
    THEN [i \in 1..Len(headers) |->
            IF headers[i].name = name THEN [name |-> name, values |-> <<value>>] ELSE headers[i]]
    ELSE Append(headers, [name |-> name, values |-> <<value>>])

\* The loop of lines 71-73; to_str().unwrap() panics on the first value
\* that is not text.
RECURSIVE InsertLoop(_, _, _)
InsertLoop(headers, entries, i) ==
    IF i > Len(entries) THEN [panic |-> FALSE, headers |-> headers]
    ELSE LET text == ToStr(entries[i].value)
         IN IF ~text.some THEN [panic |-> TRUE]
            ELSE InsertLoop(InsertHeader(headers, entries[i].name, text.val), entries, i + 1)

\* Response::set_body, line 74.
SetBody(response, body) == [response EXCEPT !.body = body]

\* Lines 67-75 as a whole: the Response, or a panic.
TranslateResponse(res) ==
    LET len == MapLen(res.body.len)
        body == BodyFromReader(res.body.content, len)
        new == ResponseNew(res.status)
        hdrs == IF new.panic THEN [panic |-> TRUE]
                ELSE InsertLoop(new.response.headers, Entries(res.headers), 1)
    IN IF new.panic \/ hdrs.panic
       THEN [panic |-> TRUE]
       ELSE [panic |-> FALSE,
             response |-> SetBody([new.response EXCEPT !.headers = hdrs.headers], body)]

----------------------------------------------------------------------------
(* State *)

Adapters == 1..MaxAdapters
Handles == 1..MaxHandles
Calls == 1..MaxCalls

IdleCall ==
    [pc |-> "idle",        \* idle, created, awaiting, done, panicked
     client |-> None,      \* the Arc clone the future holds (line 46)
     home |-> None,        \* the handle of self's family when send was called (history)
     via |-> None,         \* the handle send_async was invoked on (history)
     arg |-> None,         \* the Request as passed (history)
     req |-> None,         \* the future's `mut req`
     ereq |-> None,        \* the engine request handed to send_async
     invoked |-> 0,        \* invocations of send_async by this call
     eres |-> None,        \* what the engine answered (history)
     response |-> None,    \* Ok(response)
     error |-> None,       \* Err(error)
     read |-> None]        \* what the caller read from the Response's Body

Init ==
    /\ adapter = [a \in Adapters |-> None]
    /\ origin = [a \in Adapters |-> None]
    /\ rc = [h \in Handles |-> 0]
    /\ engine = [h \in Handles |-> "none"]
    /\ call = [c \in Calls |-> IdleCall]
    /\ aborted = FALSE

\* Dropping one Arc; the engine goes with the last one.
RcAfterDrop(h) == [rc EXCEPT ![h] = @ - 1]
EngineAfterDrop(h) == IF rc[h] = 1 THEN [engine EXCEPT ![h] = "none"] ELSE engine

----------------------------------------------------------------------------
(* Construction, clone, drop: lines 12-42 *)

\* from_client: Arc::new(client), a fresh handle with one reference.
FromClient(a, cfg) ==
    /\ ~aborted
    /\ adapter[a] = None
    /\ \E h \in Handles :
        /\ rc[h] = 0
        /\ \A g \in Handles : rc[g] = 0 => h <= g
        /\ rc' = [rc EXCEPT ![h] = 1]
        /\ engine' = [engine EXCEPT ![h] = cfg]
        /\ adapter' = [adapter EXCEPT ![a] = Some(h)]
        /\ origin' = [origin EXCEPT ![a] = Some(h)]
    /\ UNCHANGED <<call, aborted>>

\* new: from_client(isahc::HttpClient::new().unwrap()), engine built.
New(a) == FromClient(a, "default")

\* new: isahc::HttpClient::new() fails and the unwrap ends the process.
NewFail(a) ==
    /\ ~aborted
    /\ adapter[a] = None
    /\ aborted' = TRUE
    /\ adapter' = [b \in Adapters |-> None]
    /\ origin' = [b \in Adapters |-> None]
    /\ rc' = [h \in Handles |-> 0]
    /\ engine' = [h \in Handles |-> "none"]
    /\ call' = [c \in Calls |-> IdleCall]

\* A clone that builds a second engine with the same configuration.
CloneDeep(a, b) ==
    /\ ~aborted
    /\ adapter[a] # None
    /\ adapter[b] = None
    /\ \E h \in Handles :
        /\ rc[h] = 0
        /\ \A g \in Handles : rc[g] = 0 => h <= g
        /\ rc' = [rc EXCEPT ![h] = 1]
        /\ engine' = [engine EXCEPT ![h] = engine[adapter[a].val]]
        /\ adapter' = [adapter EXCEPT ![b] = Some(h)]
    /\ origin' = [origin EXCEPT ![b] = origin[a]]
    /\ UNCHANGED <<call, aborted>>

\* clone: self.client.clone(), one more reference to the same handle.
Clone(a, b) ==
    /\ ~aborted
    /\ adapter[a] # None
    /\ adapter[b] = None
    /\ adapter' = [adapter EXCEPT ![b] = adapter[a]]
    /\ origin' = [origin EXCEPT ![b] = origin[a]]
    /\ rc' = [rc EXCEPT ![adapter[a].val] = @ + 1]
    /\ UNCHANGED <<engine, call, aborted>>

\* An IsahcClient goes out of scope: its Arc is dropped.
Drop(a) ==
    /\ ~aborted
    /\ adapter[a] # None
    /\ adapter' = [adapter EXCEPT ![a] = None]
    /\ origin' = [origin EXCEPT ![a] = None]
    /\ rc' = RcAfterDrop(adapter[a].val)
    /\ engine' = EngineAfterDrop(adapter[a].val)
    /\ UNCHANGED <<call, aborted>>

----------------------------------------------------------------------------
(* send: lines 45-77 *)

\* Lines 45-47: the handle is cloned into the future, which is returned
\* unpolled.
Send(c, a, req) ==
    /\ ~aborted
    /\ call[c].pc = "idle"
    /\ adapter[a] # None
    /\ call' = [call EXCEPT ![c] =
                  [IdleCall EXCEPT !.pc = "created",
                                   !.client = adapter[a], !.home = origin[a],
                                   !.arg = Some(req), !.req = Some(req)]]
    /\ rc' = [rc EXCEPT ![adapter[a].val] = @ + 1]
    /\ UNCHANGED <<adapter, origin, engine, aborted>>

\* The future ends (returns or unwinds): its Arc clone is dropped.
EndCall(c, pc, response, error) ==
    [call[c] EXCEPT !.pc = pc, !.client = None, !.response = response, !.error = error]

\* First poll, lines 48-66: the engine request is built and send_async is
\* invoked on the cloned handle, or an unwrap panics.
Poll(c) ==
    /\ ~aborted
    /\ call[c].pc = "created"
    /\ LET built == BuildRequest(call[c].req.val)
           h == call[c].client.val
       IN IF built.panic
          THEN /\ call' = [call EXCEPT ![c] =
                             [EndCall(c, "panicked", None, None) EXCEPT !.req = Some(built.req)]]
               /\ rc' = RcAfterDrop(h)
               /\ engine' = EngineAfterDrop(h)
          ELSE /\ call' = [call EXCEPT ![c].pc = "awaiting",
                                       ![c].req = Some(built.req),
                                       ![c].ereq = Some(built.request),
                                       ![c].via = Some(h),
                                       ![c].invoked = @ + 1]
               /\ UNCHANGED <<rc, engine>>
    /\ UNCHANGED <<adapter, origin, aborted>>

\* A completion that invokes the engine again after a failure.
CompleteRetry(c, res) ==
    IF res.kind = "fail"
    THEN [call[c] EXCEPT !.invoked = @ + 1, !.eres = Some(res)]
    ELSE LET t == TranslateResponse(res)
         IN IF t.panic
            THEN [EndCall(c, "panicked", None, None) EXCEPT !.eres = Some(res)]
            ELSE [EndCall(c, "done", Some(t.response), None) EXCEPT !.eres = Some(res)]

\* The engine answers (line 66) and the future runs to its end (lines
\* 66-75): Err(Error::from(e)) on an engine failure, else the translated
\* Response, or a panic of the translation.
Complete(c, res) ==
    IF res.kind = "fail"
    THEN [EndCall(c, "done", None, Some("TransportFailure")) EXCEPT !.eres = Some(res)]
    ELSE LET t == TranslateResponse(res)
         IN IF t.panic
            THEN [EndCall(c, "panicked", None, None) EXCEPT !.eres = Some(res)]
            ELSE [EndCall(c, "done", Some(t.response), None) EXCEPT !.eres = Some(res)]

Resume(c) ==
    /\ ~aborted
    /\ call[c].pc = "awaiting"
    /\ \E res \in EngineOutcomes(call[c].ereq.val) :
         call' = [call EXCEPT ![c] = Complete(c, res)]
    /\ rc' = RcAfterDrop(call[c].client.val)
    /\ engine' = EngineAfterDrop(call[c].client.val)
    /\ UNCHANGED <<adapter, origin, aborted>>

\* The caller reads the Response's Body to its end (body_string, line
\* 116): the bytes of the reader, which is then spent.
ReadBody(c) ==
    /\ ~aborted
    /\ call[c].pc = "done"
    /\ call[c].response # None
    /\ call[c].read = None
    /\ call' = [call EXCEPT ![c].read = Some(call[c].response.val.body.content),
                            ![c].response = Some(SetBody(call[c].response.val, EmptyBody))]
    /\ UNCHANGED <<adapter, origin, rc, engine, aborted>>

\* The caller drops the future before it has finished.
Cancel(c) ==
    /\ ~aborted
    /\ call[c].pc \in {"created", "awaiting"}
    /\ call' = [call EXCEPT ![c] = IdleCall]
    /\ rc' = RcAfterDrop(call[c].client.val)
    /\ engine' = EngineAfterDrop(call[c].client.val)
    /\ UNCHANGED <<adapter, origin, aborted>>

\* The caller is done with the result of the call.
Release(c) ==
    /\ ~aborted
    /\ call[c].pc \in {"done", "panicked"}
    /\ call' = [call EXCEPT ![c] = IdleCall]
    /\ UNCHANGED <<adapter, origin, rc, engine, aborted>>

----------------------------------------------------------------------------
(* Specifications *)

\* One adapter built by new(), one call at a time, every request of Requests.
Next ==
    \/ New(1)
    \/ NewFail(1)
    \/ \E req \in Requests : Send(1, 1, req)
    \/ Poll(1)
    \/ Resume(1)
    \/ ReadBody(1)
    \/ Cancel(1)
    \/ Release(1)

Spec == Init /\ [][Next]_vars

\* Several adapters, clones, drops and concurrent calls, each call the test
\* request sent to the unreachable endpoint.
NextShare ==
    \/ \E a \in Adapters : New(a)
    \/ \E a \in Adapters : NewFail(a)
    \/ \E a \in Adapters, cfg \in EngineConfigs : FromClient(a, cfg)
    \/ \E a, b \in Adapters : Clone(a, b)
    \/ \E a \in Adapters : Drop(a)
    \/ \E c \in Calls, a \in Adapters, req \in SmallRequests : Send(c, a, req)
    \/ \E c \in Calls : Poll(c)
    \/ \E c \in Calls : Resume(c)
    \/ \E c \in Calls : Cancel(c)
    \/ \E c \in Calls : Release(c)

SpecShare == Init /\ [][NextShare]_vars

----------------------------------------------------------------------------
(* Properties *)

Ended(k) == k.pc \in {"done", "panicked"}
Succeeded(k) == k.pc = "done" /\ k.response # None

\* The values a header collection holds under a name, in order.
ValuesOf(headers, name) ==
    IF \E i \in 1..Len(headers) : headers[i].name = name
    THEN headers[CHOOSE i \in 1..Len(headers) : headers[i].name = name].values
    ELSE <<>>

\* C1: once the echo endpoint has answered a request with a body of known
\* length N and content C, send has returned a Response with status 200, a
\* Body that reads back as C, and a reported length that, when present, is N.
EchoRoundTrip ==
    \A c \in Calls :
        LET k == call[c] IN
        (/\ k.eres # None
         /\ k.eres.val.kind = "resp"
         /\ k.arg.val.url = UrlEcho
         /\ k.arg.val.body.len.some) =>
            /\ Succeeded(k)
            /\ k.response.val.status = 200
            /\ IF k.read = None
               THEN /\ k.response.val.body.content = k.arg.val.body.content
                    /\ k.response.val.body.len.some =>
                           k.response.val.body.len.val = k.arg.val.body.len.val
               ELSE k.read.val = k.arg.val.body.content

EchoRoundTripWitness ==
    \E c \in Calls :
        /\ Succeeded(call[c])
        /\ call[c].arg.val.url = UrlEcho
        /\ call[c].arg.val.body = MkBody(<<104, 105>>, Some(Len(<<104, 105>>)))
        /\ call[c].eres.val.body.len.some
        /\ call[c].read = Some(<<104, 105>>)

\* C2: a send call that has ended gave the caller exactly one of a
\* Response and an Error.
ExactlyOneResult ==
    \A c \in Calls :
        Ended(call[c]) => ((call[c].response # None) # (call[c].error # None))

\* C3: the engine request carries one entry per (name, value) pair of the
\* Request, names in the Request's enumeration order, no value dropped.
EveryRequestHeaderValueSent ==
    \A c \in Calls :
        call[c].ereq # None => call[c].ereq.val.headers = Entries(call[c].arg.val.headers)

\* C4: the Response of a successful send holds, under every name, all the
\* values the engine's response has under it, in the engine's order.
EveryResponseHeaderValueKept ==
    \A c \in Calls :
        Succeeded(call[c]) =>
            \A name \in HeaderNames :
                ValuesOf(call[c].response.val.headers, name)
                    = ValuesOf(call[c].eres.val.headers, name)

\* A Request the engine's representation cannot take: a method it rejects
\* or a header value with a byte it disallows.
Untranslatable(req) ==
    \/ ~MethodFromBytes(MethodToString(req.method)).ok
    \/ \E i \in 1..Len(req.headers) : \E j \in 1..Len(req.headers[i].values) :
           ~HttpValueValid(req.headers[i].values[j])

\* C5: a send of an untranslatable Request ends with an Error and without
\* the engine having been invoked.
UntranslatableRequestIsError ==
    \A c \in Calls :
        (call[c].arg # None /\ Untranslatable(call[c].arg.val) /\ call[c].pc # "created") =>
            /\ call[c].pc = "done"
            /\ call[c].error # None
            /\ call[c].response = None
            /\ call[c].invoked = 0

\* An engine response with a header value that is not text.
Malformed(res) ==
    /\ res.kind = "resp"
    /\ \E i \in 1..Len(res.headers) : \E j \in 1..Len(res.headers[i].values) :
           ~ToStr(res.headers[i].values[j]).some

\* C6: when the engine has answered with a malformed response, send ends
\* with an Error and no Response.
MalformedResponseIsError ==
    \A c \in Calls :
        (call[c].eres # None /\ Malformed(call[c].eres.val)) =>
            /\ call[c].pc = "done"
            /\ call[c].error # None
            /\ call[c].response = None

\* C7: a send call invokes the engine at most once; after an engine failure
\* it has ended with an Error wrapping the failure, no Response, and that
\* one invocation.
NoRetry ==
    \A c \in Calls :
        /\ call[c].invoked <= 1
        /\ call[c].eres = Some(EngineFailure) =>
               /\ call[c].pc = "done"
               /\ call[c].error = Some("TransportFailure")
               /\ call[c].response = None
               /\ call[c].invoked = 1

NoRetryWitness ==
    \E c \in Calls :
        /\ call[c].eres = Some(EngineFailure)
        /\ call[c].pc = "done"
        /\ call[c].invoked = 1
        /\ call[c].arg.val.url = UrlDown

\* C8: the engine body is sized exactly when the Request's Body has a known
\* length, and then declares that length.
SizedIffKnownLength ==
    \A c \in Calls :
        call[c].ereq # None =>
            LET known == call[c].arg.val.body.len
                declared == call[c].ereq.val.body.len
            IN /\ declared.some <=> known.some
               /\ known.some => declared.val = known.val

SizedIffKnownLengthWitness ==
    \E c \in Calls :
        /\ call[c].ereq # None
        /\ call[c].arg.val.body.len = Some(Len(<<104, 105>>))
        /\ call[c].ereq.val.body.len = Some(Len(<<104, 105>>))

\* Every adapter holds the handle its family was constructed with, every
\* send future holds and invokes that same handle, and the reference count
\* of a handle is the number of adapters and futures holding it.
HandleShared ==
    /\ \A a \in Adapters :
           adapter[a] # None =>
               /\ adapter[a] = origin[a]
               /\ engine[adapter[a].val] # "none"
    /\ \A c \in Calls :
           /\ call[c].client # None =>
                  /\ call[c].client = call[c].home
                  /\ engine[call[c].client.val] # "none"
           /\ call[c].via # None => call[c].via = call[c].home
    /\ \A h \in Handles :
           rc[h] = Cardinality({a \in Adapters : adapter[a] = Some(h)})
                   + Cardinality({c \in Calls : call[c].client = Some(h)})

\* A handle that stays alive keeps its configuration.
HandleStable ==
    \A h \in Handles : (rc[h] > 0 /\ rc'[h] > 0) => engine'[h] = engine[h]

\* C9: the original adapter, its clones and every send call issued through
\* them use the one handle of construction; clone and send only add or drop
\* references to it and never change or replace it.
OneSharedHandle == []HandleShared /\ [][HandleStable]_vars

OneSharedHandleWitness ==
    \E a, b \in Adapters : \E c \in Calls :
        /\ a # b
        /\ adapter[a] # None
        /\ adapter[b] = adapter[a]
        /\ call[c].via = adapter[a]
        /\ call[c].pc = "awaiting"
        /\ rc[adapter[a].val] >= 3
        /\ engine[adapter[a].val] = "custom"

\* C10: the Body of the Response of a successful send reports the length
\* the engine's response body reports, and none when the engine reports none.
ResponseLengthAsEngine ==
    \A c \in Calls :
        (Succeeded(call[c]) /\ call[c].read = None) =>
            call[c].response.val.body.len = call[c].eres.val.body.len

ResponseLengthAsEngineWitness ==
    \E c \in Calls :
        /\ Succeeded(call[c])
        /\ call[c].read = None
        /\ call[c].arg.val.url = UrlOther
        /\ call[c].eres.val.body.len = Some(Len(<<104, 105>>))
        /\ call[c].response.val.body.len = Some(Len(<<104, 105>>))

====
